---- MODULE Spec2Model ----
(***************************************************************************)
(* Model of the SCTP outbound packetizer, net/sctp/output.c (Linux 4.9).   *)
(*                                                                         *)
(* One packet (struct sctp_packet) of one transport of one association is  *)
(* modelled together with the transport and association fields the file    *)
(* reads and writes.  The caller (the outqueue) owns a queue of chunks     *)
(* and offers them in queue order through sctp_packet_append_chunk or      *)
(* sctp_packet_transmit_chunk; it may call sctp_packet_transmit at any     *)
(* time.  The factories sctp_make_auth / sctp_make_sack and the            *)
(* allocations and route lookup inside sctp_packet_transmit can fail;      *)
(* each failure is a nondeterministic input of the action that makes the   *)
(* call.                                                                   *)
(*                                                                         *)
(* Lengths are bytes.  The path MTU and the chunk lengths are small so     *)
(* that a handful of chunks crosses the MTU; the header sizes are the real *)
(* ones.  Pure statistics (osacks, opackets), timestamps and debug output  *)
(* are left out.  The association is always present (transport->asoc is   *)
(* not NULL).                                                              *)
(***************************************************************************)
EXTENDS Integers, Sequences, FiniteSets, TLC

\* ------------------------------------------------------------------ bounds

\* Chunks in the caller's queue.
MaxChunks == 2
\* Chunks the factories (sctp_make_auth, sctp_make_sack, the ECNE prepend) can
\* allocate; a factory asked for more returns NULL.
MaxMade == 3

\* ------------------------------------------------------- program constants

\* sp->pf->af->net_header_len of an IPv4 socket.
NetHeaderLen == 20
\* sizeof(struct sctphdr)
SctpHdrLen == 12
\* sizeof(sctp_data_chunk_t)
DataChunkHdrLen == 16
\* chunk_len is a __u16
U16 == 65536

NULL == 0

QIds == 1..MaxChunks
MadeIds == (MaxChunks + 1)..(MaxChunks + MaxMade)
Ids == 1..(MaxChunks + MaxMade)

\* --------------------------------------------------------------- the state

VARIABLES
  packet,     \* struct sctp_packet
  tp,         \* struct sctp_transport (packet->transport)
  asoc,       \* struct sctp_association (tp->asoc), its socket included
  ch,         \* the chunks, by id: static fields and per-chunk state
  adm,        \* history: ids in the order __sctp_packet_append_chunk admitted them
  wire,       \* history: the buffers handed to af_specific->sctp_xmit, in order
  pc,         \* "idle" between calls, "crash" once chunk_list is corrupted;
              \* "asked", "fit", "can" where one predicate is applied to an input
  last        \* history: what the last call of the interface gave back

vars == <<packet, tp, asoc, ch, adm, wire, pc, last>>

\* ------------------------------------------------------------ pure helpers

\* SCTP_PAD4
PAD4(n) == ((n + 3) \div 4) * 4

sctp_chunk_is_data(c) == c.type = "DATA"

\* ntohs(chunk->chunk_hdr->length) - sizeof(sctp_data_chunk_t)
sctp_data_size(c) == c.len - DataChunkHdrLen

sctp_packet_empty(p) == p.size = p.overhead

\* A chunk nobody has allocated yet.
NoChunk ==
  [type |-> "NONE", len |-> 0, auth |-> FALSE, fast_retransmit |-> FALSE,
   resent |-> FALSE, can_delay |-> FALSE,
   where |-> "none", skb_len |-> 0, sent_count |-> 0, has_tsn |-> FALSE,
   rtt_in_progress |-> FALSE, transport |-> FALSE, nfree |-> 0,
   trigger |-> NULL]

\* What the factories build: sctp_make_auth, sctp_make_sack and
\* sctp_get_ecne_prepend.  None of them asks for authentication of itself.
\* trigger (history) is the chunk it is bundled for.
MadeChunk(type, trigger) ==
  [NoChunk EXCEPT !.type = type,
                  !.len = CASE type = "AUTH" -> 12
                            [] type = "SACK" -> 16
                            [] OTHER -> 8,
                  !.skb_len = CASE type = "AUTH" -> 12
                                [] type = "SACK" -> 16
                                [] OTHER -> 8,
                  !.where = "caller",
                  !.trigger = trigger]

\* The world the helpers of output.c work on.
World == [pkt |-> packet, tp |-> tp, asoc |-> asoc, ch |-> ch, adm |-> adm]

FreeIds(w) == {i \in MadeIds : w.ch[i].where = "none"}
NewId(w) == CHOOSE i \in FreeIds(w) : \A j \in FreeIds(w) : i <= j

sctp_chunk_free(w, c) ==
  [w EXCEPT !.ch[c].where = "freed", !.ch[c].nfree = @ + 1]

\* ------------------------------------------------------- sctp_packet_reset

sctp_packet_reset(p) ==
  [p EXCEPT !.size = p.overhead,
            !.has_cookie_echo = FALSE,
            !.has_sack = FALSE,
            !.has_data = FALSE,
            !.has_auth = FALSE,
            !.ipfragok = FALSE,
            !.auth = NULL]

\* ---------------------------------------------------- sctp_packet_will_fit

\* A faulty sctp_packet_will_fit: a control chunk may follow DATA beyond the
\* path MTU.
WillFitControlAfterData(w, c, chunk_len) ==
  LET p == w.pkt
      psize == p.size
      pmtu == w.asoc.pathmtu
      maxsize == pmtu - p.overhead
                 - (IF p.auth # NULL THEN PAD4(w.ch[p.auth].skb_len) ELSE 0)
      full == \/ (maxsize >= 0 /\ chunk_len > maxsize)
              \/ psize + chunk_len > p.max_size
              \/ (w.tp.burst_limited = 0
                  /\ psize + chunk_len > w.tp.cwnd \div 2)
              \/ (w.tp.burst_limited # 0
                  /\ psize + chunk_len > w.tp.burst_limited \div 2)
  IN IF psize + chunk_len > pmtu
     THEN IF sctp_packet_empty(p) \/ (~p.has_data /\ w.ch[c].auth)
          THEN [ret |-> "OK", w |-> [w EXCEPT !.pkt.ipfragok = TRUE]]
          ELSE [ret |-> IF full THEN "PMTU_FULL" ELSE "OK", w |-> w]
     ELSE [ret |-> "OK", w |-> w]

\* A faulty sctp_packet_will_fit: a chunk that the IP layer must fragment is
\* let in without ipfragok.
WillFitNoFragOk(w, c, chunk_len) ==
  LET p == w.pkt
      psize == p.size
      pmtu == w.asoc.pathmtu
      maxsize == pmtu - p.overhead
                 - (IF p.auth # NULL THEN PAD4(w.ch[p.auth].skb_len) ELSE 0)
      full == \/ (maxsize >= 0 /\ chunk_len > maxsize)
              \/ (~sctp_chunk_is_data(w.ch[c]) /\ p.has_data)
              \/ psize + chunk_len > p.max_size
              \/ (w.tp.burst_limited = 0
                  /\ psize + chunk_len > w.tp.cwnd \div 2)
              \/ (w.tp.burst_limited # 0
                  /\ psize + chunk_len > w.tp.burst_limited \div 2)
  IN IF psize + chunk_len > pmtu
     THEN IF sctp_packet_empty(p) \/ (~p.has_data /\ w.ch[c].auth)
          THEN [ret |-> "OK", w |-> w]
          ELSE [ret |-> IF full THEN "PMTU_FULL" ELSE "OK", w |-> w]
     ELSE [ret |-> "OK", w |-> w]

\* A faulty sctp_packet_will_fit: the test against max_size is left out.
WillFitNoMaxSize(w, c, chunk_len) ==
  LET p == w.pkt
      psize == p.size
      pmtu == w.asoc.pathmtu
      maxsize == pmtu - p.overhead
                 - (IF p.auth # NULL THEN PAD4(w.ch[p.auth].skb_len) ELSE 0)
      full == \/ (maxsize >= 0 /\ chunk_len > maxsize)
              \/ (~sctp_chunk_is_data(w.ch[c]) /\ p.has_data)
              \/ (w.tp.burst_limited = 0
                  /\ psize + chunk_len > w.tp.cwnd \div 2)
              \/ (w.tp.burst_limited # 0
                  /\ psize + chunk_len > w.tp.burst_limited \div 2)
  IN IF psize + chunk_len > pmtu
     THEN IF sctp_packet_empty(p) \/ (~p.has_data /\ w.ch[c].auth)
          THEN [ret |-> "OK", w |-> [w EXCEPT !.pkt.ipfragok = TRUE]]
          ELSE [ret |-> IF full THEN "PMTU_FULL" ELSE "OK", w |-> w]
     ELSE [ret |-> "OK", w |-> w]

sctp_packet_will_fit(w, c, chunk_len) ==
  LET p == w.pkt
      psize == p.size
      pmtu == w.asoc.pathmtu
      \* size_t arithmetic: a negative difference wraps to a value no
      \* chunk_len exceeds
      maxsize == pmtu - p.overhead
                 - (IF p.auth # NULL THEN PAD4(w.ch[p.auth].skb_len) ELSE 0)
      full == \/ (maxsize >= 0 /\ chunk_len > maxsize)
              \/ (~sctp_chunk_is_data(w.ch[c]) /\ p.has_data)
              \/ psize + chunk_len > p.max_size
              \/ (w.tp.burst_limited = 0
                  /\ psize + chunk_len > w.tp.cwnd \div 2)
              \/ (w.tp.burst_limited # 0
                  /\ psize + chunk_len > w.tp.burst_limited \div 2)
  IN IF psize + chunk_len > pmtu
     THEN IF sctp_packet_empty(p) \/ (~p.has_data /\ w.ch[c].auth)
          THEN [ret |-> "OK", w |-> [w EXCEPT !.pkt.ipfragok = TRUE]]
          ELSE [ret |-> IF full THEN "PMTU_FULL" ELSE "OK", w |-> w]
     ELSE [ret |-> "OK", w |-> w]

\* --------------------------------------------- sctp_packet_can_append_data

\* A faulty sctp_packet_can_append_data: a chunk under fast retransmit is
\* held to cwnd like any other.
CanAppendDataFrtxHeld(w, c) ==
  LET chunk == w.ch[c]
      rwnd == w.asoc.peer_rwnd
      inflight == w.asoc.outstanding_bytes
      flight_size == w.tp.flight_size
      datasize == sctp_data_size(chunk)
      room == w.tp.pathmtu - w.pkt.overhead - DataChunkHdrLen - 4
  IN IF datasize > rwnd /\ inflight > 0 THEN "RWND_FULL"
     ELSE IF flight_size >= w.tp.cwnd THEN "RWND_FULL"
     ELSE IF w.asoc.nodelay THEN "OK"
     ELSE IF ~sctp_packet_empty(w.pkt) THEN "OK"
     ELSE IF inflight = 0 THEN "OK"
     ELSE IF ~w.asoc.established THEN "OK"
     ELSE IF room >= 0 /\ chunk.skb_len + w.asoc.out_qlen > room THEN "OK"
     ELSE IF ~chunk.can_delay THEN "OK"
     ELSE "DELAY"

sctp_packet_can_append_data(w, c) ==
  LET chunk == w.ch[c]
      rwnd == w.asoc.peer_rwnd
      inflight == w.asoc.outstanding_bytes
      flight_size == w.tp.flight_size
      datasize == sctp_data_size(chunk)
      \* unsigned arithmetic: a negative room wraps to a value nothing exceeds
      room == w.tp.pathmtu - w.pkt.overhead - DataChunkHdrLen - 4
  IN IF datasize > rwnd /\ inflight > 0 THEN "RWND_FULL"
     ELSE IF ~chunk.fast_retransmit /\ flight_size >= w.tp.cwnd
       THEN "RWND_FULL"
     ELSE IF w.asoc.nodelay THEN "OK"
     ELSE IF ~sctp_packet_empty(w.pkt) THEN "OK"
     ELSE IF inflight = 0 THEN "OK"
     ELSE IF ~w.asoc.established THEN "OK"
     ELSE IF room >= 0 /\ chunk.skb_len + w.asoc.out_qlen > room THEN "OK"
     ELSE IF ~chunk.can_delay THEN "OK"
     ELSE "DELAY"

\* ------------------------------------------------- sctp_packet_append_data

\* A faulty sctp_packet_append_data: peer.rwnd is not clipped at 0.
AppendDataUnclipped(w, c) ==
  [w EXCEPT !.tp.flight_size = @ + sctp_data_size(w.ch[c]),
            !.asoc.outstanding_bytes = @ + sctp_data_size(w.ch[c]),
            !.asoc.peer_rwnd = @ - sctp_data_size(w.ch[c]),
            !.ch[c].has_tsn = TRUE]

sctp_packet_append_data(w, c) ==
  LET datasize == sctp_data_size(w.ch[c])
      rwnd == w.asoc.peer_rwnd
  IN [w EXCEPT !.tp.flight_size = @ + datasize,
               !.asoc.outstanding_bytes = @ + datasize,
               !.asoc.peer_rwnd = IF datasize < rwnd THEN rwnd - datasize
                                  ELSE 0,
               \* sctp_chunk_assign_tsn, sctp_chunk_assign_ssn
               !.ch[c].has_tsn = TRUE]

\* ---------------------------------------------- __sctp_packet_append_chunk

\* A faulty AppendSwitch: a DATA chunk does not bar the SACK bundling.
AppendSwitchSackOpen(w, c) ==
  LET type == w.ch[c].type
  IN CASE type = "DATA" ->
            [sctp_packet_append_data(w, c) EXCEPT
               !.pkt.has_auth = TRUE,
               !.pkt.has_data = TRUE,
               !.ch[c].sent_count = @ + 1]
       [] type = "COOKIE_ECHO" -> [w EXCEPT !.pkt.has_cookie_echo = TRUE]
       [] type = "SACK" -> [w EXCEPT !.pkt.has_sack = TRUE]
       [] type = "AUTH" -> [w EXCEPT !.pkt.has_auth = TRUE, !.pkt.auth = c]
       [] OTHER -> w

\* A faulty AppendSwitch: a COOKIE_ECHO chunk leaves has_cookie_echo clear.
AppendSwitchNoCookieFlag(w, c) ==
  LET type == w.ch[c].type
  IN CASE type = "DATA" ->
            [sctp_packet_append_data(w, c) EXCEPT
               !.pkt.has_sack = TRUE,
               !.pkt.has_auth = TRUE,
               !.pkt.has_data = TRUE,
               !.ch[c].sent_count = @ + 1]
       [] type = "SACK" -> [w EXCEPT !.pkt.has_sack = TRUE]
       [] type = "AUTH" -> [w EXCEPT !.pkt.has_auth = TRUE, !.pkt.auth = c]
       [] OTHER -> w

\* The type switch of __sctp_packet_append_chunk.
AppendSwitch(w, c) ==
  LET type == w.ch[c].type
  IN CASE type = "DATA" ->
            [sctp_packet_append_data(w, c) EXCEPT
               !.pkt.has_sack = TRUE,
               !.pkt.has_auth = TRUE,
               !.pkt.has_data = TRUE,
               !.ch[c].sent_count = @ + 1]
       [] type = "COOKIE_ECHO" -> [w EXCEPT !.pkt.has_cookie_echo = TRUE]
       [] type = "SACK" -> [w EXCEPT !.pkt.has_sack = TRUE]
       [] type = "AUTH" -> [w EXCEPT !.pkt.has_auth = TRUE, !.pkt.auth = c]
       [] OTHER -> w

\* A faulty AppendTail: size grows by the unpadded chunk length.
AppendTailUnpadded(w, c, chunk_len) ==
  [w EXCEPT !.pkt.chunk_list = Append(@, c),
            !.pkt.size = @ + w.ch[c].len,
            !.ch[c].transport = TRUE,
            !.ch[c].where = "packet",
            !.adm = Append(@, c)]

\* A faulty AppendTail: list_add in place of list_add_tail.
AppendTailAtHead(w, c, chunk_len) ==
  [w EXCEPT !.pkt.chunk_list = <<c>> \o @,
            !.pkt.size = @ + chunk_len,
            !.ch[c].transport = TRUE,
            !.ch[c].where = "packet",
            !.adm = Append(@, c)]

\* list_add_tail, size += chunk_len, chunk->transport = packet->transport
AppendTail(w, c, chunk_len) ==
  [w EXCEPT !.pkt.chunk_list = Append(@, c),
            !.pkt.size = @ + chunk_len,
            !.ch[c].transport = TRUE,
            !.ch[c].where = "packet",
            !.adm = Append(@, c)]

\* __sctp_packet_append_chunk after sctp_packet_will_fit has returned fit.
AppendFitted(fit, c, chunk_len) ==
  IF fit.ret # "OK"
  THEN fit
  ELSE [ret |-> "OK", w |-> AppendTail(AppendSwitch(fit.w, c), c, chunk_len)]

\* __u16 chunk_len = SCTP_PAD4(ntohs(chunk->chunk_hdr->length))
ChunkLen(chunk) == PAD4(chunk.len) % U16

__sctp_packet_append_chunk(w, c) ==
  AppendFitted(sctp_packet_will_fit(w, c, ChunkLen(w.ch[c])), c,
               ChunkLen(w.ch[c]))

\* ------------------------------------------------- sctp_packet_bundle_auth

\* sctp_packet_bundle_auth after the append of the AUTH chunk a returned r.
BundledAuth(r, a) ==
  IF r.ret # "OK" THEN [ret |-> r.ret, w |-> sctp_chunk_free(r.w, a)] ELSE r

\* made: sctp_make_auth returned a chunk.
sctp_packet_bundle_auth(w, c, made) ==
  IF w.ch[c].type = "AUTH" \/ w.pkt.has_auth THEN [ret |-> "OK", w |-> w]
  ELSE IF ~w.ch[c].auth THEN [ret |-> "OK", w |-> w]
  ELSE IF ~made \/ FreeIds(w) = {} THEN [ret |-> "OK", w |-> w]
  ELSE BundledAuth(__sctp_packet_append_chunk(
                     [w EXCEPT !.ch[NewId(w)] = MadeChunk("AUTH", c)],
                     NewId(w)),
                   NewId(w))

\* ------------------------------------------------- sctp_packet_bundle_sack

\* A faulty BundledSack: the timer is cancelled although the SACK chunk was
\* refused.
BundledSackCancelsAnyway(r, s) ==
  IF r.ret # "OK"
  THEN [ret |-> r.ret,
        w |-> [sctp_chunk_free(r.w, s) EXCEPT !.asoc.sack_needed = FALSE,
                                              !.asoc.timer_pending = FALSE]]
  ELSE [ret |-> "OK",
        w |-> [r.w EXCEPT !.asoc.sack_needed = FALSE,
                          !.asoc.timer_pending = FALSE]]

\* sctp_packet_bundle_sack after the append of the SACK chunk s returned r.
BundledSack(r, s) ==
  IF r.ret # "OK"
  THEN [ret |-> r.ret, w |-> sctp_chunk_free(r.w, s)]
  ELSE [ret |-> "OK",
        w |-> [r.w EXCEPT !.asoc.sack_needed = FALSE,
                          \* del_timer
                          !.asoc.timer_pending = FALSE]]

\* made: sctp_make_sack returned a chunk.
sctp_packet_bundle_sack(w, c, made) ==
  IF sctp_chunk_is_data(w.ch[c]) /\ ~w.pkt.has_sack /\ ~w.pkt.has_cookie_echo
     /\ w.asoc.timer_pending
  THEN IF w.tp.sack_generation # w.asoc.peer_sack_generation
       THEN [ret |-> "OK", w |-> w]
       ELSE IF ~made \/ FreeIds(w) = {}
         THEN [ret |-> "OK", w |-> [w EXCEPT !.asoc.a_rwnd = w.asoc.rwnd]]
       ELSE BundledSack(
              __sctp_packet_append_chunk(
                [w EXCEPT !.asoc.a_rwnd = w.asoc.rwnd,
                          !.ch[NewId(w)] = MadeChunk("SACK", c)],
                NewId(w)),
              NewId(w))
  ELSE [ret |-> "OK", w |-> w]

\* ------------------------------------------------ sctp_packet_append_chunk

\* sctp_packet_append_chunk after sctp_packet_bundle_sack has returned bs.
AppendAfterSack(bs, c) ==
  IF bs.ret # "OK" THEN bs ELSE __sctp_packet_append_chunk(bs.w, c)

\* sctp_packet_append_chunk after sctp_packet_bundle_auth has returned ba.
AppendAfterAuth(ba, c, mk_sack) ==
  IF ba.ret # "OK" THEN ba
  ELSE AppendAfterSack(sctp_packet_bundle_sack(ba.w, c, mk_sack), c)

\* A faulty sctp_packet_append_chunk: the AUTH chunk is bundled before the
\* DATA chunk is checked against the windows.
AppendChunkBundlesFirst(w, c, mk_auth, mk_sack) ==
  IF sctp_chunk_is_data(w.ch[c])
     /\ sctp_packet_can_append_data(w, c) # "OK"
  THEN [ret |-> sctp_packet_can_append_data(w, c),
        w |-> sctp_packet_bundle_auth(w, c, mk_auth).w]
  ELSE AppendAfterAuth(sctp_packet_bundle_auth(w, c, mk_auth), c, mk_sack)

\* mk_auth, mk_sack: sctp_make_auth and sctp_make_sack return a chunk when
\* they are called.
sctp_packet_append_chunk(w, c, mk_auth, mk_sack) ==
  IF sctp_chunk_is_data(w.ch[c])
     /\ sctp_packet_can_append_data(w, c) # "OK"
  THEN [ret |-> sctp_packet_can_append_data(w, c), w |-> w]
  ELSE AppendAfterAuth(sctp_packet_bundle_auth(w, c, mk_auth), c, mk_sack)

\* ---------------------------------------------------- sctp_packet_transmit

InList(p, c) == \E i \in 1..Len(p.chunk_list) : p.chunk_list[i] = c

\* Label err: of sctp_packet_transmit: every chunk left in the list is
\* unlinked and the chunks that are not DATA are freed.
RECURSIVE ErrDrain(_, _, _)
ErrDrain(w, list, i) ==
  IF i > Len(list) THEN w
  ELSE ErrDrain(IF sctp_chunk_is_data(w.ch[list[i]])
                THEN [w EXCEPT !.ch[list[i]].where = "rtx"]
                ELSE sctp_chunk_free(w, list[i]),
                list, i + 1)

\* Label out: after the drain of label err:.
ErrReset(w) ==
  [w EXCEPT !.pkt = sctp_packet_reset([w.pkt EXCEPT !.chunk_list = <<>>])]

\* Labels err: and out:.
TransmitErr(w) == ErrReset(ErrDrain(w, w.pkt.chunk_list, 1))

\* Label nomem: an AUTH chunk that is in no list is freed first.
TransmitNomem(w) ==
  TransmitErr(IF w.pkt.auth # NULL /\ ~InList(w.pkt, w.pkt.auth)
              THEN sctp_chunk_free(w, w.pkt.auth)
              ELSE w)

\* The GSO size walk over chunk_list (list_for_each_entry): the size of the
\* next sub-packet, or nomem when AUTH plus one chunk cannot fit the path MTU.
RECURSIVE GsoWalk(_, _, _, _)
GsoWalk(w, i, auth_len, pkt_size) ==
  LET list == w.pkt.chunk_list
      padded == PAD4(w.ch[list[i]].skb_len)
  IN IF i > Len(list)
     THEN [nomem |-> FALSE, auth_len |-> auth_len, pkt_size |-> pkt_size]
     ELSE IF list[i] = w.pkt.auth
       THEN GsoWalk(w, i + 1, padded, pkt_size + padded)
     ELSE IF auth_len + padded + w.pkt.overhead > w.tp.pathmtu
       THEN [nomem |-> TRUE, auth_len |-> auth_len, pkt_size |-> pkt_size]
     ELSE IF pkt_size + padded > w.tp.pathmtu
       THEN [nomem |-> FALSE, auth_len |-> auth_len, pkt_size |-> pkt_size]
     ELSE GsoWalk(w, i + 1, auth_len, pkt_size + padded)

\* A faulty DrainCount: the drain loop stops after one chunk.
DrainCountOne(w, i, pkt_size) == i

\* How many chunks the drain loop (list_for_each_entry_safe) takes off the
\* head of the list: it stops when pkt_size reaches 0 exactly, or at the end.
RECURSIVE DrainCount(_, _, _)
DrainCount(w, i, pkt_size) ==
  IF i > Len(w.pkt.chunk_list) THEN Len(w.pkt.chunk_list)
  ELSE IF pkt_size = PAD4(w.ch[w.pkt.chunk_list[i]].skb_len) THEN i
  ELSE DrainCount(w, i + 1,
                  pkt_size - PAD4(w.ch[w.pkt.chunk_list[i]].skb_len))

\* A faulty DrainChunk: a round trip is measured on every DATA chunk that is
\* not a retransmission, whether or not one is being measured already.
DrainChunkEveryRtt(w, c) ==
  LET chunk == w.ch[c]
      rtt == sctp_chunk_is_data(chunk) /\ ~chunk.resent
  IN [w EXCEPT
        !.tp.rto_pending = @ \/ rtt,
        !.ch[c] = [chunk EXCEPT
           !.rtt_in_progress = @ \/ rtt,
           !.skb_len = PAD4(@),
           !.where = IF sctp_chunk_is_data(chunk) THEN "rtx"
                     ELSE IF c # w.pkt.auth THEN "freed"
                     ELSE "unlinked",
           !.nfree = IF ~sctp_chunk_is_data(chunk) /\ c # w.pkt.auth
                     THEN @ + 1 ELSE @]]

\* The body of the drain loop for one chunk: the RTT measurement, the
\* padding added to chunk->skb, the free of a control chunk.
DrainChunk(w, c) ==
  LET chunk == w.ch[c]
      rtt == sctp_chunk_is_data(chunk) /\ ~chunk.resent /\ ~w.tp.rto_pending
  IN [w EXCEPT
        !.tp.rto_pending = @ \/ rtt,
        !.ch[c] = [chunk EXCEPT
           !.rtt_in_progress = @ \/ rtt,
           !.skb_len = PAD4(@),
           !.where = IF sctp_chunk_is_data(chunk) THEN "rtx"
                     ELSE IF c # w.pkt.auth THEN "freed"
                     ELSE "unlinked",
           !.nfree = IF ~sctp_chunk_is_data(chunk) /\ c # w.pkt.auth
                     THEN @ + 1 ELSE @]]

RECURSIVE DrainChunks(_, _, _)
DrainChunks(w, list, i) ==
  IF i > Len(list) THEN w ELSE DrainChunks(DrainChunk(w, list[i]), list, i + 1)

HasData(w, list) == \E i \in 1..Len(list) : sctp_chunk_is_data(w.ch[list[i]])

\* The locals of sctp_packet_transmit at its entry; subs collects the chunks
\* each pass of the loop puts in its buffer.
NoFrame ==
  [gso |-> FALSE, pktcount |-> 0, auth_len |-> 0, has_data |-> FALSE,
   subs |-> <<>>]

\* A faulty TransmitEnter: ipfragok does not keep the packet from GSO.
TransmitEnterIgnoresFragOk(w, head_ok, dst_ok) ==
  LET over == w.pkt.size > w.tp.pathmtu
  IN IF w.pkt.chunk_list = <<>> THEN [k |-> "ret", w |-> w, gso |-> FALSE]
     ELSE IF (over /\ ~w.asoc.can_gso) \/ ~head_ok \/ ~dst_ok
       THEN [k |-> "err", w |-> TransmitErr(w), gso |-> FALSE]
     ELSE [k |-> "loop", w |-> w, gso |-> over]

\* sctp_packet_transmit up to its do-while: "ret" when it returns at once
\* (nothing to send), "err" when it discards the packet (offload needed but
\* missing, no head buffer, no route), "loop" when it enters the loop.
\* head_ok: alloc_skb gave the head; dst_ok: the transport has a route.
TransmitEnter(w, head_ok, dst_ok) ==
  LET over == w.pkt.size > w.tp.pathmtu /\ ~w.pkt.ipfragok
  IN IF w.pkt.chunk_list = <<>> THEN [k |-> "ret", w |-> w, gso |-> FALSE]
     ELSE IF (over /\ ~w.asoc.can_gso) \/ ~head_ok \/ ~dst_ok
       THEN [k |-> "err", w |-> TransmitErr(w), gso |-> FALSE]
     ELSE [k |-> "loop", w |-> w, gso |-> over]

\* A faulty PassEnd: the loop ends after its first pass.
PassEndAfterOne(w, x, splice_ok) ==
  IF ~x.gso THEN [k |-> "sent", w |-> w, x |-> x]
  ELSE IF ~splice_ok THEN [k |-> "nomem", w |-> TransmitNomem(w), x |-> x]
  ELSE [k |-> "sent", w |-> w, x |-> x]

\* The end of a pass: the buffer is spliced into the head (skb_gro_receive,
\* gso_max_segs) and the loop goes on while chunks are left.
PassEnd(w, x, splice_ok) ==
  IF ~x.gso THEN [k |-> "sent", w |-> w, x |-> x]
  ELSE IF ~splice_ok THEN [k |-> "nomem", w |-> TransmitNomem(w), x |-> x]
  ELSE IF w.pkt.chunk_list # <<>> THEN [k |-> "loop", w |-> w, x |-> x]
  ELSE [k |-> "sent", w |-> w, x |-> x]

\* The AUTH chunk after the drain: list_add at the head when chunks are left,
\* else its free.  list_add of a chunk that is still linked in chunk_list
\* corrupts the list: "crash".
PassRequeue(w, x, splice_ok) ==
  IF w.pkt.auth = NULL THEN PassEnd(w, x, splice_ok)
  ELSE IF w.pkt.chunk_list = <<>>
    THEN PassEnd([sctp_chunk_free(w, w.pkt.auth) EXCEPT !.pkt.auth = NULL],
                 x, splice_ok)
  ELSE IF InList(w.pkt, w.pkt.auth) THEN [k |-> "crash", w |-> w, x |-> x]
  ELSE PassEnd([w EXCEPT !.pkt.chunk_list = <<w.pkt.auth>> \o @,
                         !.ch[w.pkt.auth].where = "packet"],
               x, splice_ok)

\* The drain loop of a pass takes the first n chunks of the list.
PassDrain(w, x, auth_len, n, splice_ok) ==
  PassRequeue(
    [DrainChunks(w, SubSeq(w.pkt.chunk_list, 1, n), 1)
       EXCEPT !.pkt.chunk_list = SubSeq(@, n + 1, Len(@))],
    [x EXCEPT !.pktcount = @ + 1,
              !.auth_len = auth_len,
              !.has_data = @ \/ HasData(w, SubSeq(w.pkt.chunk_list, 1, n)),
              !.subs = Append(@, SubSeq(w.pkt.chunk_list, 1, n))],
    splice_ok)

\* A pass after the size of its buffer is known (walk).  nskb_ok: alloc_skb
\* gave the sub-buffer.
PassWalked(w, x, walk, nskb_ok, splice_ok) ==
  IF x.gso /\ (walk.nomem \/ ~nskb_ok)
  THEN [k |-> "nomem", w |-> TransmitNomem(w),
        x |-> [x EXCEPT !.pktcount = @ + 1]]
  ELSE PassDrain(w, x, walk.auth_len,
                 DrainCount(w, 1, walk.pkt_size - w.pkt.overhead), splice_ok)

\* One pass of the do-while of sctp_packet_transmit.  k is "loop" (another
\* pass follows), "sent", "nomem" or "crash".
TransmitPass(w, x, nskb_ok, splice_ok) ==
  PassWalked(w, x,
             IF x.gso THEN GsoWalk(w, 1, x.auth_len, w.pkt.overhead)
             ELSE [nomem |-> FALSE, auth_len |-> x.auth_len,
                   pkt_size |-> w.pkt.size],
             nskb_ok, splice_ok)

\* What the environment can refuse during one call of sctp_packet_transmit:
\* the head buffer, the route, and in pass number `pass` of the loop the
\* sub-buffer (alloc_skb) or its splice into the head.
NoFail == [at |-> "none", pass |-> 0]
Failures(w) ==
  {NoFail}
  \cup (IF w.pkt.chunk_list # <<>>
        THEN {[at |-> a, pass |-> 0] : a \in {"head", "dst"}}
        ELSE {})
  \cup (IF w.pkt.size > w.tp.pathmtu /\ ~w.pkt.ipfragok /\ w.asoc.can_gso
        THEN {[at |-> a, pass |-> k]
                : a \in {"nskb", "splice"}, k \in 1..Len(w.pkt.chunk_list)}
        ELSE {})

\* The do-while of sctp_packet_transmit, pass after pass.
RECURSIVE TransmitLoop(_, _, _)
LoopNext(r, fail) ==
  IF r.k = "loop" THEN TransmitLoop(r.w, r.x, fail) ELSE r

TransmitLoop(w, x, fail) ==
  LoopNext(TransmitPass(w, x,
                        ~(fail.at = "nskb" /\ fail.pass = x.pktcount + 1),
                        ~(fail.at = "splice" /\ fail.pass = x.pktcount + 1)),
           fail)

\* The buffer handed to af_specific->sctp_xmit.
Buffer(w, x) ==
  [gso |-> x.gso, gso_segs |-> IF x.gso THEN x.pktcount ELSE 0,
   ignore_df |-> w.pkt.ipfragok, subs |-> x.subs]

\* A faulty TransmitEnd: the packet is not reset after the buffer was sent.
TransmitEndNoReset(r) ==
  IF r.k = "sent"
  THEN [k |-> "sent", err |-> 0, w |-> r.w,
        out |-> <<Buffer(r.w, r.x)>>, x |-> r.x]
  ELSE [k |-> r.k, err |-> 0, w |-> r.w, out |-> <<>>, x |-> r.x]

\* sctp_packet_transmit after its loop ended as r: the buffer is sent and
\* the packet reset, or the labels nomem:, err: and out: have run.  err is
\* the value returned, out the buffers handed to sctp_xmit.
TransmitEnd(r) ==
  IF r.k = "sent"
  THEN [k |-> "sent", err |-> 0,
        w |-> [r.w EXCEPT !.pkt = sctp_packet_reset(@)],
        out |-> <<Buffer(r.w, r.x)>>, x |-> r.x]
  ELSE [k |-> r.k, err |-> 0, w |-> r.w, out |-> <<>>, x |-> r.x]

\* sctp_packet_transmit after its entry ended as e.
TransmitEntered(e, fail) ==
  IF e.k # "loop"
  THEN [k |-> e.k, err |-> 0, w |-> e.w, out |-> <<>>, x |-> NoFrame]
  ELSE TransmitEnd(TransmitLoop(e.w, [NoFrame EXCEPT !.gso = e.gso], fail))

\* sctp_packet_transmit(packet, gfp)
sctp_packet_transmit(w, fail) ==
  TransmitEntered(TransmitEnter(w, fail.at # "head", fail.at # "dst"), fail)

\* ----------------------------------------------------------------- inputs

\* The chunks the caller can queue.  A DATA chunk carries a 16-byte header.
Templates ==
  { [NoChunk EXCEPT !.type = "DATA", !.len = 18, !.auth = TRUE,
                    !.can_delay = TRUE],
    [NoChunk EXCEPT !.type = "DATA", !.len = 28, !.fast_retransmit = TRUE,
                    !.resent = TRUE],
    [NoChunk EXCEPT !.type = "CTRL", !.len = 36],
    [NoChunk EXCEPT !.type = "CTRL", !.len = 22, !.auth = TRUE],
    [NoChunk EXCEPT !.type = "COOKIE_ECHO", !.len = 24],
    [NoChunk EXCEPT !.type = "SACK", !.len = 16],
    [NoChunk EXCEPT !.type = "AUTH", !.len = 12] }

NewChunk(t) == [t EXCEPT !.where = "caller", !.skb_len = t.len]

\* The transport and the association the packet belongs to: a transport with
\* room in cwnd and one that is nearly full, a peer window that is open or
\* nearly closed, with and without segmentation offload.  The SACK timer is
\* pending; where the peer window is nearly closed the transport's
\* sack_generation is stale.  Where offload is on and cwnd has room an ECNE
\* is due.
Roomy ==
  [pathmtu |-> 72, cwnd |-> 400, burst_limited |-> 0, flight_size |-> 0,
   rto_pending |-> FALSE, sack_generation |-> 1]
Busy ==
  [pathmtu |-> 72, cwnd |-> 160, burst_limited |-> 0, flight_size |-> 150,
   rto_pending |-> FALSE, sack_generation |-> 1]

Association(t, r, g, gen, ecne) ==
  [pathmtu |-> t.pathmtu, peer_rwnd |-> r,
   outstanding_bytes |-> t.flight_size, out_qlen |-> 0,
   timer_pending |-> TRUE, sack_needed |-> TRUE,
   peer_sack_generation |-> gen,
   established |-> TRUE, nodelay |-> FALSE, rwnd |-> 100, a_rwnd |-> 0,
   can_gso |-> g, gso_max_size |-> 65536, need_ecne |-> ecne,
   sk_err |-> 0]

Settings ==
  {[tp |-> Roomy, asoc |-> Association(Roomy, 400, FALSE, 1, FALSE)],
   [tp |-> Roomy, asoc |-> Association(Roomy, 400, TRUE, 1, TRUE)],
   [tp |-> Roomy, asoc |-> Association(Roomy, 6, FALSE, 2, FALSE)],
   [tp |-> Busy, asoc |-> Association(Busy, 400, TRUE, 1, FALSE)]}

\* ------------------------------------------------------------------- Init

\* The zeroed packet inside a new transport.
ZeroPacket ==
  [chunk_list |-> <<>>, size |-> 0, overhead |-> 0, max_size |-> 0,
   vtag |-> 0, has_cookie_echo |-> FALSE, has_sack |-> FALSE,
   has_data |-> FALSE, has_auth |-> FALSE, ipfragok |-> FALSE, auth |-> NULL]

\* sctp_packet_init: INIT_LIST_HEAD, the overhead, the reset, vtag = 0.
PacketInit(p) ==
  [sctp_packet_reset([p EXCEPT !.chunk_list = <<>>,
                               !.overhead = NetHeaderLen + SctpHdrLen])
   EXCEPT !.vtag = 0]

\* What a call of the interface gave back: the chunk it offered, the verdict
\* of its first append and the verdict it returned, how often it ran the
\* emitter and sctp_packet_append_chunk, how the emitter ended ("ret": nothing
\* to send, "err", "nomem", "sent", "crash") and the error it returned.
NoCall ==
  [chunk |-> NULL, first |-> "none", ret |-> "none", err |-> 0,
   emits |-> 0, appends |-> 0, how |-> "none"]

Init ==
  /\ packet = PacketInit(ZeroPacket)
  /\ \E e \in Settings : tp = e.tp /\ asoc = e.asoc
  /\ ch = [i \in Ids |-> NoChunk]
  /\ adm = <<>>
  /\ wire = <<>>
  /\ pc = "idle"
  /\ last = NoCall

\* ---------------------------------------------------------------- actions

\* The chunk the caller offers next: the one it still holds after a refusal,
\* else a new one at the tail of its queue.
Pending == {i \in QIds : ch[i].where = "caller"}
Unused == {i \in QIds : ch[i].where = "none"}
Offers ==
  IF Pending # {}
  THEN {[c |-> i, w |-> World] : i \in Pending}
  ELSE IF Unused = {} THEN {}
  ELSE LET slot == CHOOSE i \in Unused : \A j \in Unused : i <= j
       IN {[c |-> slot, w |-> [World EXCEPT !.ch[slot] = NewChunk(t)]]
           : t \in Templates}

\* The outcomes of the factories that a call of sctp_packet_append_chunk
\* for chunk c can see: whether sctp_make_auth and sctp_make_sack return a
\* chunk (TRUE when the factory is not called).
MakeAuth(w, c) ==
  IF w.ch[c].type # "AUTH" /\ ~w.pkt.has_auth /\ w.ch[c].auth
  THEN BOOLEAN ELSE {TRUE}
MakeSack(w, c) ==
  IF sctp_chunk_is_data(w.ch[c]) /\ w.asoc.timer_pending
     /\ w.tp.sack_generation = w.asoc.peer_sack_generation
  THEN BOOLEAN ELSE {TRUE}

\* The record of a call whose first append of chunk c gave r.
First(r, c) ==
  [NoCall EXCEPT !.chunk = c, !.first = r.ret, !.ret = r.ret, !.appends = 1]

\* list_add of an AUTH chunk that is still linked turns chunk_list into a
\* cycle that never leads back to its head.  What the loops of
\* sctp_packet_transmit do on it is undefined (they read and write chunks
\* that are freed already); the call never returns.  Its outcomes: the
\* machine stops before anything else is freed, or label err: frees the
\* chunks of the cycle and meets the AUTH chunk, and frees it, again.
CrashOutcomes(w) ==
  {w, sctp_chunk_free(ErrDrain(w, w.pkt.chunk_list, 1), w.pkt.auth)}

\* A call has left the world v.
Leaves(k, v, out, call) ==
  /\ packet' = v.pkt
  /\ tp' = v.tp
  /\ asoc' = v.asoc
  /\ ch' = v.ch
  /\ adm' = v.adm
  /\ wire' = wire \o out
  /\ pc' = IF k = "crash" THEN "crash" ELSE "idle"
  /\ last' = call

\* A call returns: w is the world it leaves, out the buffers it sent, k
\* "crash" when it never returns.
Returns(k, w, out, call) ==
  \E v \in (IF k = "crash" THEN CrashOutcomes(w) ELSE {w}) :
    Leaves(k, v, out, call)

\* sctp_packet_config(packet, vtag, ecn_capable)
sctp_packet_config(w, vtag, ecn_capable) ==
  LET w1 == [w EXCEPT !.pkt.vtag = vtag,
                      !.pkt.max_size = IF w.asoc.can_gso
                                       THEN w.asoc.gso_max_size
                                       ELSE w.asoc.pathmtu]
  IN IF ecn_capable /\ sctp_packet_empty(w.pkt) /\ w.asoc.need_ecne
        /\ FreeIds(w) # {}
     THEN \* sctp_get_ecne_prepend makes an ECNE chunk; the CWR that clears
          \* need_ecne arrives before the next call
          sctp_packet_append_chunk(
            [w1 EXCEPT !.ch[NewId(w)] = MadeChunk("CTRL", NULL),
                       !.asoc.need_ecne = FALSE],
            NewId(w), FALSE, FALSE).w
     ELSE w1

\* sctp_packet_config has returned w; a call that changed nothing leaves no
\* record.
ConfigReturns(w) ==
  Returns("idle", w, <<>>, IF w = World THEN last ELSE NoCall)

\* The caller configures the packet before it fills it.
Config ==
  /\ pc = "idle"
  /\ \E ecn_capable \in BOOLEAN :
       ConfigReturns(sctp_packet_config(World, 1, ecn_capable))

\* sctp_packet_append_chunk called by the caller itself has returned r.
AppendReturns(r, c) ==
  Returns("idle", r.w, <<>>, First(r, c))

\* The caller calls sctp_packet_append_chunk itself.
AppendChunk ==
  /\ pc = "idle"
  /\ packet.max_size # 0
  /\ \E o \in Offers :
     \E mk_auth \in MakeAuth(o.w, o.c), mk_sack \in MakeSack(o.w, o.c) :
       AppendReturns(sctp_packet_append_chunk(o.w, o.c, mk_auth, mk_sack),
                     o.c)

\* sctp_packet_transmit called by the caller itself has returned t.
TransmitReturns(t) ==
  Returns(t.k, t.w, t.out,
          [NoCall EXCEPT !.ret = "returned", !.err = t.err, !.emits = 1,
                         !.how = t.k])

\* The caller calls sctp_packet_transmit itself.
Transmit ==
  /\ pc = "idle"
  /\ packet.max_size # 0
  /\ \E fail \in Failures(World) :
       TransmitReturns(sctp_packet_transmit(World, fail))

\* sctp_packet_transmit_chunk after the retry returned r2; t is what the
\* flush returned, call the record of the call so far.
ChunkRetried(r2, t, call) ==
  Returns("idle", r2.w, t.out, [call EXCEPT !.ret = r2.ret, !.appends = 2])

\* sctp_packet_transmit_chunk after the flush: sctp_packet_transmit returned
\* t; a negative error goes to sk_err; the append is retried unless
\* one_packet.
ChunkFlushed(t, c, one_packet, call) ==
  IF t.k = "crash" \/ one_packet
  THEN Returns(t.k,
               IF t.err < 0 THEN [t.w EXCEPT !.asoc.sk_err = -t.err] ELSE t.w,
               t.out, [call EXCEPT !.emits = 1, !.err = t.err, !.how = t.k])
  ELSE \E mk_auth \in MakeAuth(t.w, c), mk_sack \in MakeSack(t.w, c) :
         ChunkRetried(
           sctp_packet_append_chunk(
             IF t.err < 0 THEN [t.w EXCEPT !.asoc.sk_err = -t.err] ELSE t.w,
             c, mk_auth, mk_sack),
           t, [call EXCEPT !.emits = 1, !.err = t.err, !.how = t.k])

\* ChunkAppended without the has_cookie_echo test of the PMTU_FULL case.
ChunkAppendedFlushesCookie(r, c, one_packet) ==
  IF r.ret = "PMTU_FULL"
  THEN \E fail \in Failures(r.w) :
         ChunkFlushed(sctp_packet_transmit(r.w, fail), c, one_packet,
                      First(r, c))
  ELSE Returns("idle", r.w, <<>>, First(r, c))

\* sctp_packet_transmit_chunk after its first append returned r.
ChunkAppended(r, c, one_packet) ==
  IF r.ret = "PMTU_FULL" /\ ~r.w.pkt.has_cookie_echo
  THEN \E fail \in Failures(r.w) :
         ChunkFlushed(sctp_packet_transmit(r.w, fail), c, one_packet,
                      First(r, c))
  ELSE Returns("idle", r.w, <<>>, First(r, c))

\* sctp_packet_transmit_chunk(packet, chunk, one_packet, gfp)
sctp_packet_transmit_chunk(one_packet) ==
  /\ pc = "idle"
  /\ packet.max_size # 0
  /\ \E o \in Offers :
     \E mk_auth \in MakeAuth(o.w, o.c), mk_sack \in MakeSack(o.w, o.c) :
       ChunkAppended(sctp_packet_append_chunk(o.w, o.c, mk_auth, mk_sack),
                     o.c, one_packet)

Next ==
  \/ Config
  \/ AppendChunk
  \/ Transmit
  \/ \E one_packet \in BOOLEAN : sctp_packet_transmit_chunk(one_packet)

Spec == Init /\ [][Next]_vars

\* The path MTU of the transport drops (an ICMP "fragmentation needed" makes
\* sctp_transport_update_pmtu and sctp_assoc_sync_pmtu lower the transport's
\* and the association's pathmtu) while the packet holds what it holds.
PmtuShrinks ==
  /\ pc = "idle"
  /\ packet.chunk_list # <<>>
  /\ tp.pathmtu = Roomy.pathmtu
  /\ tp' = [tp EXCEPT !.pathmtu = @ - 16]
  /\ asoc' = [asoc EXCEPT !.pathmtu = @ - 16]
  /\ last' = NoCall
  /\ UNCHANGED <<packet, ch, adm, wire, pc>>

NextPmtu == Next \/ PmtuShrinks

\* The packetizer on a path whose MTU can drop between two calls.
SpecPmtu == Init /\ [][NextPmtu]_vars

\* DATA arrives from the peer after the SACK timer was cancelled: the
\* association wants to acknowledge again and restarts the timer.
SackTimerStarts ==
  /\ pc = "idle"
  /\ ~asoc.timer_pending
  /\ asoc' = [asoc EXCEPT !.timer_pending = TRUE, !.sack_needed = TRUE]
  /\ last' = NoCall
  /\ UNCHANGED <<packet, tp, ch, adm, wire, pc>>

\* A SACK from the peer acknowledges the chunk whose round trip is being
\* measured: sctp_check_transmitted ends the measurement and
\* sctp_transport_update_rto clears rto_pending.
RttMeasured ==
  /\ pc = "idle"
  /\ tp.rto_pending
  /\ \E c \in QIds :
       /\ ch[c].rtt_in_progress
       /\ ch[c].where = "rtx"
       /\ ch' = [ch EXCEPT ![c].rtt_in_progress = FALSE]
  /\ tp' = [tp EXCEPT !.rto_pending = FALSE]
  /\ last' = NoCall
  /\ UNCHANGED <<packet, asoc, adm, wire, pc>>

NextPeer == Next \/ SackTimerStarts \/ RttMeasured

\* The packetizer while the peer sends DATA and SACK chunks.
SpecPeer == Init /\ [][NextPeer]_vars

\* -------------------------------------------- the two predicates, by input

\* The inputs of sctp_packet_will_fit and sctp_packet_can_append_data: a
\* packet that holds up to two chunks already, the chunk that is offered
\* (chunk 1), the congestion and the peer's window, Nagle's conditions.
Priors ==
  {<<>>} \cup {<<s>> : s \in Templates}
         \cup {<<s, t>> : s \in {u \in Templates : u.len \in {12, 18, 36}},
                          t \in Templates}
Cwnds == {160, 400}
BurstLimits == {0, 200}
Flights == {0, 170}
PeerRwnds == {6, 400}
Nagles ==
  {[nodelay |-> FALSE, established |-> TRUE, out_qlen |-> 0],
   [nodelay |-> TRUE, established |-> TRUE, out_qlen |-> 0],
   [nodelay |-> FALSE, established |-> FALSE, out_qlen |-> 0],
   [nodelay |-> FALSE, established |-> TRUE, out_qlen |-> 8]}

\* The packet is filled the way the program fills it: chunks i..n go through
\* __sctp_packet_append_chunk, and a refusal ends the filling.
RECURSIVE Filled(_, _, _)
FilledNext(r, i, n) ==
  IF r.ret # "OK" THEN r ELSE Filled(r.w, i + 1, n)
Filled(w, i, n) ==
  IF i > n
  THEN [ret |-> "OK", w |-> w]
  ELSE FilledNext(__sctp_packet_append_chunk(w, i), i, n)

Asked(t, prior, cw, bl, fl, r, g, ng) ==
  LET trn == [Roomy EXCEPT !.cwnd = cw, !.burst_limited = bl,
                           !.flight_size = fl]
      a == [Association(trn, r, g, 1, FALSE) EXCEPT
              !.nodelay = ng.nodelay,
              !.established = ng.established,
              !.out_qlen = ng.out_qlen]
      chs == [i \in Ids |->
                IF i = 1 THEN NewChunk(t)
                ELSE IF i - 1 <= Len(prior) THEN NewChunk(prior[i - 1])
                ELSE NoChunk]
      w == [pkt |-> PacketInit(ZeroPacket), tp |-> trn, asoc |-> a,
            ch |-> chs, adm |-> <<>>]
  IN Filled(sctp_packet_config(w, 1, FALSE), 2, Len(prior) + 1)

InitAsked ==
  \E t \in Templates, prior \in Priors, cw \in Cwnds, bl \in BurstLimits,
     fl \in Flights, r \in PeerRwnds, g \in BOOLEAN, ng \in Nagles :
    LET f == Asked(t, prior, cw, bl, fl, r, g, ng)
    IN /\ f.ret = "OK"
       /\ packet = f.w.pkt
       /\ tp = f.w.tp
       /\ asoc = f.w.asoc
       /\ ch = f.w.ch
       /\ adm = f.w.adm
       /\ wire = <<>>
       /\ pc = "asked"
       /\ last = NoCall

\* __sctp_packet_append_chunk asks sctp_packet_will_fit about chunk 1.
WillFit ==
  /\ pc = "asked"
  /\ LET r == sctp_packet_will_fit(World, 1, ChunkLen(ch[1]))
     IN /\ packet' = r.w.pkt
        /\ tp' = r.w.tp
        /\ asoc' = r.w.asoc
        /\ ch' = r.w.ch
        /\ adm' = r.w.adm
        /\ last' = [NoCall EXCEPT !.chunk = 1, !.ret = r.ret]
  /\ pc' = "fit"
  /\ UNCHANGED wire

\* sctp_packet_append_chunk asks sctp_packet_can_append_data about chunk 1;
\* the function has no assignment to anything but its locals.
CanAppendData ==
  /\ pc = "asked"
  /\ sctp_chunk_is_data(ch[1])
  /\ last' = [NoCall EXCEPT !.chunk = 1,
                            !.ret = sctp_packet_can_append_data(World, 1)]
  /\ pc' = "can"
  /\ UNCHANGED <<packet, tp, asoc, ch, adm, wire>>

NextAsked == WillFit \/ CanAppendData

\* The two predicates, each applied to every input.
SpecAsked == InitAsked /\ [][NextAsked]_vars

\* ------------------------------------------------------------------ claims

\* The padded lengths of the chunks list[i..], summed.
RECURSIVE PaddedSum(_, _)
PaddedSum(list, i) ==
  IF i > Len(list) THEN 0 ELSE PAD4(ch[list[i]].len) + PaddedSum(list, i + 1)

\* The chunks of the list that a factory made (bundled AUTH, SACK, ECNE).
Bundled(list) == {i \in 1..Len(list) : list[i] \in MadeIds}

\* C1: between calls, whatever calls were made with whatever failures,
\* packet.size is packet.overhead plus the sum of the lengths, rounded up to
\* a multiple of 4, of the chunks in chunk_list.
C1_SizeIsSum ==
  pc = "idle" =>
    packet.size = packet.overhead + PaddedSum(packet.chunk_list, 1)

\* C1 at work: after an emit, a packet holds a bundled chunk and a chunk
\* whose length is not a multiple of 4.
C1_Witness ==
  /\ pc = "idle"
  /\ wire # <<>>
  /\ Bundled(packet.chunk_list) # {}
  /\ \E i \in 1..Len(packet.chunk_list) : ch[packet.chunk_list[i]].len % 4 # 0

\* i < j index a DATA chunk and a later chunk of the list.
AfterData(list) ==
  {ij \in (1..Len(list)) \X (1..Len(list)) :
     ij[1] < ij[2] /\ sctp_chunk_is_data(ch[list[ij[1]]])}

\* C2 as claimed: between calls no SACK chunk and no AUTH chunk stands after
\* a DATA chunk in chunk_list, whoever appended it.
C2_NoSackAuthAfterData ==
  pc = "idle" =>
    \A ij \in AfterData(packet.chunk_list) :
      ch[packet.chunk_list[ij[2]]].type \notin {"SACK", "AUTH"}

\* C2 amended: between calls no SACK chunk and no AUTH chunk that the core
\* bundled stands after a DATA chunk in chunk_list.
C2_NoBundledAfterData ==
  pc = "idle" =>
    \A ij \in AfterData(packet.chunk_list) :
      packet.chunk_list[ij[2]] \in MadeIds
        => ch[packet.chunk_list[ij[2]]].type \notin {"SACK", "AUTH"}

\* C2 at work: a second DATA chunk was appended while the SACK timer is still
\* pending for this transport, and no SACK was bundled for it.
C2_Witness ==
  /\ pc = "idle"
  /\ asoc.timer_pending
  /\ tp.sack_generation = asoc.peer_sack_generation
  /\ \E ij \in AfterData(packet.chunk_list) :
       sctp_chunk_is_data(ch[packet.chunk_list[ij[2]]])

Min(a, b) == IF a < b THEN a ELSE b

\* The last step was a call that offered a DATA chunk and returned OK.
AdmittedData ==
  /\ last'.chunk # NULL
  /\ last'.ret = "OK"
  /\ sctp_chunk_is_data(ch'[last'.chunk])

\* C3: a call that returns OK for a DATA chunk of data size d, on the first
\* append or on the retry, adds d to flight_size and to outstanding_bytes and
\* takes min(d, rwnd) from peer.rwnd, which stays at or above 0.
C3_Accounting ==
  [][AdmittedData =>
       LET d == sctp_data_size(ch'[last'.chunk])
       IN /\ tp'.flight_size = tp.flight_size + d
          /\ asoc'.outstanding_bytes = asoc.outstanding_bytes + d
          /\ asoc'.peer_rwnd = asoc.peer_rwnd - Min(d, asoc.peer_rwnd)
          /\ asoc'.peer_rwnd >= 0]_vars

\* C3 at work: the retry after a flush admitted a DATA chunk larger than the
\* window the peer had left.
C3_Witness ==
  /\ last.chunk # NULL
  /\ last.ret = "OK"
  /\ last.appends = 2
  /\ sctp_chunk_is_data(ch[last.chunk])
  /\ asoc.peer_rwnd = 0
  /\ tp.flight_size = sctp_data_size(ch[last.chunk])

\* C4: a call that offers a chunk and returns RWND_FULL, DELAY or PMTU_FULL
\* leaves the chunk out of chunk_list and leaves flight_size,
\* outstanding_bytes, peer.rwnd, the chunk's sent_count and its TSN alone;
\* when the call is one sctp_packet_append_chunk that returns RWND_FULL or
\* DELAY the packet is unchanged.
C4_OnlyOkAdmits ==
  [][(last'.chunk # NULL /\ last'.ret \in {"RWND_FULL", "DELAY", "PMTU_FULL"})
       => /\ ~InList(packet', last'.chunk)
          /\ tp'.flight_size = tp.flight_size
          /\ asoc'.outstanding_bytes = asoc.outstanding_bytes
          /\ asoc'.peer_rwnd = asoc.peer_rwnd
          /\ ch'[last'.chunk].sent_count = ch[last'.chunk].sent_count
          /\ ch'[last'.chunk].has_tsn = ch[last'.chunk].has_tsn
          /\ (last'.emits = 0 /\ last'.ret \in {"RWND_FULL", "DELAY"}
                => packet' = packet)]_vars

\* C4 at work: a DATA chunk that asks for authentication was refused with
\* RWND_FULL by a packet that holds no AUTH chunk.
C4_Witness ==
  /\ last.chunk # NULL
  /\ last.ret = "RWND_FULL"
  /\ last.emits = 0
  /\ ch[last.chunk].auth
  /\ ~packet.has_auth

\* C5: a call of sctp_packet_transmit_chunk with one_packet = 0 on a packet
\* that holds no COOKIE_ECHO never returns PMTU_FULL: the retry after the
\* flush runs on the drained packet and admits the chunk.
C5_RetryNeverPmtuFull ==
  [][(sctp_packet_transmit_chunk(FALSE) /\ ~packet.has_cookie_echo
        /\ pc' = "idle")
       => last'.ret # "PMTU_FULL"]_vars

\* The step is a call of sctp_packet_transmit_chunk.
TransmitChunkStep ==
  \E one_packet \in BOOLEAN : sctp_packet_transmit_chunk(one_packet)

\* list a is the head of list b.
IsPrefix(a, b) ==
  Len(a) <= Len(b) /\ \A i \in 1..Len(a) : a[i] = b[i]

\* C6: sctp_packet_transmit_chunk runs the emitter iff its first append
\* returns PMTU_FULL and the packet holds no COOKIE_ECHO; it emits at most
\* once and appends at most twice, the second time only after the flush and
\* only when one_packet is 0; RWND_FULL and DELAY are returned as they are
\* and nothing is sent; a packet that holds a COOKIE_ECHO is not flushed:
\* PMTU_FULL is returned, nothing is sent and the chunks it held stay in
\* place.
C6_FlushIffPmtuFull ==
  [][(last'.chunk # NULL /\ TransmitChunkStep) =>
       /\ last'.emits = 1
            <=> (last'.first = "PMTU_FULL" /\ ~packet.has_cookie_echo)
       /\ last'.emits \in {0, 1}
       /\ last'.appends \in {1, 2}
       /\ last'.appends = 2 => last'.emits = 1
       /\ last'.appends # 1 => ~sctp_packet_transmit_chunk(TRUE)
       /\ last'.emits = 0 => wire' = wire /\ last'.ret = last'.first
       /\ last'.first \in {"RWND_FULL", "DELAY"} => last'.emits = 0
       /\ (packet.has_cookie_echo /\ last'.first = "PMTU_FULL")
            => /\ last'.ret = "PMTU_FULL"
               /\ wire' = wire
               /\ IsPrefix(packet.chunk_list, packet'.chunk_list)
               /\ packet'.has_cookie_echo]_vars

\* C6 at work: a packet that holds a COOKIE_ECHO
\* refused a chunk with PMTU_FULL and was not flushed.
C6_Witness ==
  /\ last.chunk # NULL
  /\ last.first = "PMTU_FULL"
  /\ last.ret = "PMTU_FULL"
  /\ last.emits = 0
  /\ packet.has_cookie_echo
  /\ packet.chunk_list # <<>>

\* The places of the wire: <<b, s, k>> is chunk k of sub-packet s of buffer
\* b (a buffer that is not a GSO one has one sub-packet).
Slots ==
  UNION {UNION {{<<b, s, k>> : k \in 1..Len(wire[b].subs[s])}
                  : s \in 1..Len(wire[b].subs)}
           : b \in 1..Len(wire)}
At(x) == wire[x[1]].subs[x[2]][x[3]]
Before(x, y) ==
  \/ x[1] < y[1]
  \/ x[1] = y[1] /\ x[2] < y[2]
  \/ x[1] = y[1] /\ x[2] = y[2] /\ x[3] < y[3]

\* When __sctp_packet_append_chunk admitted chunk c.
Admitted(c) == CHOOSE i \in 1..Len(adm) : adm[i] = c

\* The SACK and AUTH chunks the core bundled.
Companions == {m \in MadeIds : ch[m].trigger # NULL}

\* The chunk at x went out at an earlier place already.
Copy(x) == \E y \in Slots : Before(y, x) /\ At(y) = At(x)

\* C7 as claimed: the chunks stand on the wire in the order of their
\* admission, across buffers and inside them, and a bundled SACK or AUTH
\* chunk stands directly before the chunk it was bundled for (only other
\* bundled chunks between them) once that chunk has gone out.
C7_WireInAdmissionOrder ==
  /\ \A x, y \in Slots :
       Before(x, y) => Admitted(At(x)) < Admitted(At(y))
  /\ \A x \in Slots :
       (At(x) \in Companions /\ \E y \in Slots : At(y) = ch[At(x)].trigger)
         => \E y \in Slots :
              /\ Before(x, y)
              /\ At(y) = ch[At(x)].trigger
              /\ \A z \in Slots :
                   Before(x, z) /\ Before(z, y) => At(z) \in Companions

\* C7 amended: a chunk goes out more than once only as the AUTH chunk that
\* heads the second or a later sub-packet of a GSO buffer and was in the
\* sub-packet before; these copies left out, the chunks stand on the wire in
\* the order of their admission, and a bundled SACK or AUTH chunk stands
\* before the chunk it was bundled for.
C7_WireOrderButAuthCopies ==
  /\ \A x \in Slots :
       Copy(x) => /\ wire[x[1]].gso
                  /\ x[2] > 1
                  /\ x[3] = 1
                  /\ ch[At(x)].type = "AUTH"
                  /\ \E k \in 1..Len(wire[x[1]].subs[x[2] - 1]) :
                       wire[x[1]].subs[x[2] - 1][k] = At(x)
  /\ \A x, y \in Slots :
       (Before(x, y) /\ ~Copy(x) /\ ~Copy(y))
         => Admitted(At(x)) < Admitted(At(y))
  /\ \A x, y \in Slots :
       (At(x) \in Companions /\ ~Copy(x) /\ At(y) = ch[At(x)].trigger)
         => Before(x, y)

\* C7 at work: a GSO buffer went out whose second sub-packet starts with a
\* copy of the bundled AUTH chunk of the first, ahead of a chunk the AUTH
\* chunk was not bundled for.
C7_Witness ==
  \E b \in 1..Len(wire) :
    /\ wire[b].gso
    /\ Len(wire[b].subs) >= 2
    /\ Len(wire[b].subs[2]) >= 2
    /\ wire[b].subs[2][1] = wire[b].subs[1][1]
    /\ wire[b].subs[2][1] \in Companions
    /\ wire[b].subs[2][2] # ch[wire[b].subs[2][1]].trigger

\* The chunks of the packet each fit a packet of the path MTU on their own.
EachFits ==
  \A i \in 1..Len(packet.chunk_list) :
    PAD4(ch[packet.chunk_list[i]].len) <= tp.pathmtu - packet.overhead

\* The packet holds chunks that each fit the path MTU and whose padded
\* lengths sum to at most the path MTU less the overhead.
RoundTripCase ==
  /\ packet.chunk_list # <<>>
  /\ EachFits
  /\ PaddedSum(packet.chunk_list, 1) <= tp.pathmtu - packet.overhead

\* The step sent exactly one buffer, which is no GSO buffer and holds the
\* chunks of the packet in their order.
OnePacketOut ==
  /\ Len(wire') = Len(wire) + 1
  /\ SubSeq(wire', 1, Len(wire)) = wire
  /\ ~wire'[Len(wire')].gso
  /\ wire'[Len(wire')].subs = <<packet.chunk_list>>

\* C8 as claimed: sctp_packet_transmit on a packet whose appended chunks each
\* fit the path MTU and sum, padded, to at most the path MTU less the
\* overhead sends exactly one packet that holds these chunks in the order of
\* their append.
C8_RoundTrip ==
  [][(RoundTripCase /\ Transmit) => OnePacketOut]_vars

\* C8 amended: such a call sends exactly one packet that holds these chunks
\* in the order of their append, unless it gets no head buffer or has no
\* route: then it sends nothing and leaves the packet empty.
C8_RoundTripUnlessNoBuffer ==
  [][(RoundTripCase /\ Transmit)
       => \/ OnePacketOut /\ last'.how = "sent"
          \/ /\ last'.how = "err"
             /\ wire' = wire
             /\ packet'.chunk_list = <<>>
             /\ \A i \in 1..Len(packet.chunk_list) :
                  ch'[packet.chunk_list[i]].where \in {"rtx", "freed"}]_vars

\* C8 at work: sctp_packet_transmit sent one packet that is no GSO buffer,
\* with a bundled chunk and the chunk it was bundled for, no larger than the
\* path MTU.
C8_Witness ==
  /\ last.chunk = NULL
  /\ last.how = "sent"
  /\ wire # <<>>
  /\ ~wire[Len(wire)].gso
  /\ ~wire[Len(wire)].ignore_df
  /\ Len(wire[Len(wire)].subs[1]) >= 2
  /\ wire[Len(wire)].subs[1][1] \in Companions

\* The packet is one for GSO: larger than the path MTU, IP fragmentation not
\* allowed, offload on, each chunk fitting the path MTU on its own.
GsoCase ==
  /\ packet.size > tp.pathmtu
  /\ ~packet.ipfragok
  /\ asoc.can_gso
  /\ EachFits

RECURSIVE Concat(_, _)
Concat(subs, i) ==
  IF i > Len(subs) THEN <<>> ELSE subs[i] \o Concat(subs, i + 1)

\* The sub-packets without the copy of the AUTH chunk auth at the head of the
\* second and the later ones.
Stripped(subs, auth) ==
  [i \in 1..Len(subs) |->
     IF i > 1 /\ subs[i] # <<>> /\ Head(subs[i]) = auth
     THEN Tail(subs[i]) ELSE subs[i]]

Ceil(a, b) == (a + b - 1) \div b

\* C9 as claimed: the GSO buffer that sctp_packet_transmit sends for such a
\* packet has gso_segs = ceil(packet size / path MTU), and its sub-packets,
\* one after the other, hold the chunks of the packet in their order.
C9_GsoSegsIsCeil ==
  [][(GsoCase /\ last'.how = "sent" /\ Transmit)
       => /\ wire'[Len(wire')].gso_segs = Ceil(packet.size, tp.pathmtu)
          /\ Concat(wire'[Len(wire')].subs, 1) = packet.chunk_list]_vars

\* C9 amended: the GSO buffer has gso_segs = the number of sub-packets the
\* size walk cut, none of them empty, and its sub-packets, one after the
\* other and without the copy of the AUTH chunk at the head of the second
\* and the later ones, hold the chunks of the packet in their order.
C9_GsoSegsIsSubPackets ==
  [][(GsoCase /\ last'.how = "sent" /\ Transmit)
       => /\ Len(wire') = Len(wire) + 1
          /\ wire'[Len(wire')].gso
          /\ wire'[Len(wire')].gso_segs = Len(wire'[Len(wire')].subs)
          /\ \A i \in 1..Len(wire'[Len(wire')].subs) :
               wire'[Len(wire')].subs[i] # <<>>
          /\ Concat(Stripped(wire'[Len(wire')].subs, packet.auth), 1)
               = packet.chunk_list]_vars

\* C9 at work: sctp_packet_transmit sent a GSO buffer of three sub-packets.
C9_Witness ==
  /\ last.chunk = NULL
  /\ last.how = "sent"
  /\ wire # <<>>
  /\ wire[Len(wire)].gso
  /\ wire[Len(wire)].gso_segs = 3
  /\ Len(wire[Len(wire)].subs) = 3

\* The places of the AUTH chunks in chunk_list.
AuthAt ==
  {i \in 1..Len(packet.chunk_list) : ch[packet.chunk_list[i]].type = "AUTH"}

\* C10: between calls chunk_list holds at most one AUTH chunk, and an AUTH
\* chunk that is in it stands before every chunk of the list that asks for
\* authentication, whether the AUTH chunk was bundled or offered by the
\* caller and whether or not sctp_make_auth failed.
C10_OneAuthFirst ==
  pc = "idle" =>
    /\ Cardinality(AuthAt) <= 1
    /\ \A i \in AuthAt, j \in 1..Len(packet.chunk_list) :
         ch[packet.chunk_list[j]].auth => i < j

C12_FailureIsNegative ==
  last.how \in {"err", "nomem"}
    => /\ last.err < 0
       /\ last.chunk # NULL => asoc.sk_err = -last.err

\* The packet as sctp_packet_reset leaves it, with no chunk in its list.
Clean(p) ==
  /\ p.chunk_list = <<>>
  /\ p.size = p.overhead
  /\ ~p.has_cookie_echo /\ ~p.has_sack /\ ~p.has_data /\ ~p.has_auth
  /\ ~p.ipfragok
  /\ p.auth = NULL

\* C13: when sctp_packet_transmit has returned, called by the caller or by
\* sctp_packet_transmit_chunk with one_packet set, whatever failed in it,
\* chunk_list is empty, size is overhead, the five flags are clear and
\* packet->auth is NULL; called on an empty chunk_list it sends nothing and
\* changes nothing.
C13_TransmitLeavesClean ==
  [][/\ (last'.emits = 1 /\ last'.appends < 2 /\ pc' = "idle")
          => Clean(packet')
     /\ (packet.chunk_list = <<>> /\ Transmit)
          => /\ UNCHANGED <<packet, tp, asoc, ch, adm, wire>>
             /\ last'.how = "ret"]_vars

\* C13 at work: sctp_packet_transmit gave up inside the GSO loop and
\* returned; a DATA chunk of the packet is back with the caller for
\* retransmission.
C13_Witness ==
  /\ pc = "idle"
  /\ last.chunk = NULL
  /\ last.how = "nomem"
  /\ \E i \in QIds : ch[i].where = "rtx"

\* C14: sctp_packet_transmit never frees a DATA chunk and never frees a chunk
\* twice; once it has run, every chunk that is not DATA and was in
\* chunk_list is freed; and the AUTH chunk is still there for every
\* sub-packet built after the one it first went into.
C14_FreesControlOnce ==
  /\ \A c \in Ids : ch[c].nfree = IF sctp_chunk_is_data(ch[c]) THEN 0
                                 ELSE IF ch[c].where = "freed" THEN 1 ELSE 0
  /\ (last.emits = 1 /\ last.appends < 2)
       => \A c \in Ids :
            ch[c].where \in {"none", "caller", "freed"}
            \/ (sctp_chunk_is_data(ch[c]) /\ ch[c].where = "rtx")
  /\ \A x \in Slots :
       ch[At(x)].type = "AUTH"
         => \A s \in (x[2] + 1)..Len(wire[x[1]].subs) :
              Head(wire[x[1]].subs[s]) = At(x)

\* The packet goes out as a single buffer: it is no larger than the path MTU
\* or IP may fragment it.
Single == packet.size <= tp.pathmtu \/ packet.ipfragok

\* The step sent one buffer that is no GSO buffer, holds every chunk of the
\* packet and is packet.size long.
OneBufferOut ==
  /\ OnePacketOut
  /\ packet.overhead + PaddedSum(packet.chunk_list, 1) = packet.size
  /\ wire'[Len(wire')].ignore_df = packet.ipfragok

\* The step sent a GSO buffer.
GsoBufferOut ==
  Len(wire') = Len(wire) + 1 /\ wire'[Len(wire')].gso

\* The step sent nothing and left the packet empty, its control chunks freed.
Discarded ==
  /\ wire' = wire
  /\ Clean(packet')
  /\ \A i \in 1..Len(packet.chunk_list) :
       ch'[packet.chunk_list[i]].where \in {"rtx", "freed"}

\* C15 as claimed: sctp_packet_transmit on a packet with chunks sends exactly
\* one buffer, packet.size long, whenever size <= pathmtu or ipfragok is
\* set, offload or not; it sends a GSO buffer only when size > pathmtu,
\* ipfragok is clear and offload is on; and when size > pathmtu, ipfragok
\* is clear and offload is off it sends nothing and discards the packet.
C15_OneBufferOrGso ==
  [][(packet.chunk_list # <<>> /\ Transmit)
       => /\ Single => OneBufferOut
          /\ GsoBufferOut => (~Single /\ asoc.can_gso)
          /\ (~Single /\ ~asoc.can_gso) => Discarded]_vars

\* C15 amended: as claimed, but a packet that is to go out as a single
\* buffer is discarded instead, and nothing is sent, when there is no head
\* buffer or no route.
C15_OneBufferUnlessNoBuffer ==
  [][(packet.chunk_list # <<>> /\ Transmit)
       => /\ Single => \/ OneBufferOut /\ last'.how = "sent"
                       \/ Discarded /\ last'.how = "err"
          /\ GsoBufferOut => (~Single /\ asoc.can_gso)
          /\ (~Single /\ ~asoc.can_gso) => Discarded]_vars

\* C15 at work: with offload on, a packet larger than the path MTU that IP
\* may fragment went out as a single buffer.
C15_Witness ==
  /\ last.chunk = NULL
  /\ last.how = "sent"
  /\ asoc.can_gso
  /\ wire # <<>>
  /\ ~wire[Len(wire)].gso
  /\ wire[Len(wire)].ignore_df
  /\ packet.overhead + PaddedSum(wire[Len(wire)].subs[1], 1) > tp.pathmtu

\* What the decision table of sctp_packet_will_fit reads.
FitLen == ChunkLen(ch[1])
FitOver == packet.size + FitLen > asoc.pathmtu
FitFrag == sctp_packet_empty(packet) \/ (~packet.has_data /\ ch[1].auth)
FitAuthLen == IF packet.auth = NULL THEN 0 ELSE PAD4(ch[packet.auth].skb_len)
FitHalf ==
  IF tp.burst_limited = 0 THEN tp.cwnd \div 2 ELSE tp.burst_limited \div 2
FitFull ==
  \/ FitLen > asoc.pathmtu - packet.overhead - FitAuthLen
  \/ (~sctp_chunk_is_data(ch[1]) /\ packet.has_data)
  \/ packet.size + FitLen > packet.max_size
  \/ packet.size + FitLen > FitHalf

\* C16: sctp_packet_will_fit follows the decision table: OK when the chunk
\* fits the path MTU; else OK with ipfragok set when the packet is empty, or
\* holds no DATA and the chunk asks for authentication; else PMTU_FULL iff
\* one of the four limits is hit, else OK.  It changes ipfragok only, and
\* only in the second case.
C16_WillFitTable ==
  [][pc' = "fit"
       => /\ last'.ret = IF ~FitOver THEN "OK"
                         ELSE IF FitFrag THEN "OK"
                         ELSE IF FitFull THEN "PMTU_FULL"
                         ELSE "OK"
          /\ packet' = [packet EXCEPT !.ipfragok = @ \/ (FitOver /\ FitFrag)]
          /\ UNCHANGED <<tp, asoc, ch, adm, wire>>]_vars

\* A chunk beyond the path MTU was let into a packet that holds chunks, and
\* ipfragok is still clear.
C16_Witness ==
  /\ pc = "fit"
  /\ last.ret = "OK"
  /\ packet.size + ChunkLen(ch[1]) > asoc.pathmtu
  /\ ~packet.ipfragok
  /\ packet.has_data

\* What the ordered rules of sctp_packet_can_append_data read.
CanRefused ==
  \/ (sctp_data_size(ch[1]) > asoc.peer_rwnd /\ asoc.outstanding_bytes > 0)
  \/ (~ch[1].fast_retransmit /\ tp.flight_size >= tp.cwnd)
CanDelayed ==
  /\ ~asoc.nodelay
  /\ sctp_packet_empty(packet)
  /\ asoc.outstanding_bytes > 0
  /\ asoc.established
  /\ ch[1].skb_len + asoc.out_qlen
       <= tp.pathmtu - packet.overhead - DataChunkHdrLen - 4
  /\ ch[1].can_delay

\* C17: sctp_packet_can_append_data follows its ordered rules: RWND_FULL iff
\* the data exceeds the peer's window with bytes outstanding, or the chunk is
\* not under fast retransmit and flight_size has reached cwnd; else DELAY iff
\* all of Nagle's conditions hold; else OK.  It modifies no state.
C17_CanAppendRules ==
  [][pc' = "can"
       => /\ last'.ret = IF CanRefused THEN "RWND_FULL"
                         ELSE IF CanDelayed THEN "DELAY"
                         ELSE "OK"
          /\ UNCHANGED <<packet, tp, asoc, ch, adm, wire>>]_vars

\* A chunk under fast retransmit was let through with flight_size at cwnd.
C17_Witness ==
  /\ pc = "can"
  /\ ch[1].fast_retransmit
  /\ tp.flight_size >= tp.cwnd
  /\ last.ret = "OK"

\* The bundler of SACK chunks is due: what sctp_packet_bundle_sack tests
\* before it builds a SACK chunk.
SackDue ==
  /\ ~packet.has_sack
  /\ ~packet.has_cookie_echo
  /\ asoc.timer_pending
  /\ tp.sack_generation = asoc.peer_sack_generation

\* The step was a call that offered a DATA chunk.
OfferedData == last'.chunk # NULL /\ sctp_chunk_is_data(ch'[last'.chunk])

\* After the step a bundled SACK chunk stands in chunk_list directly before
\* the chunk that was offered.
SackRightBefore ==
  \E k \in 2..Len(packet'.chunk_list) :
    /\ packet'.chunk_list[k] = last'.chunk
    /\ ch'[packet'.chunk_list[k - 1]].type = "SACK"
    /\ ch'[packet'.chunk_list[k - 1]].trigger = last'.chunk

\* The step made a SACK chunk; the step appended a bundled SACK chunk; the
\* step cancelled the SACK timer.
SackMade == \E m \in MadeIds : ch'[m].type = "SACK" /\ ch[m].type # "SACK"
SackAppended ==
  \E i \in (Len(adm) + 1)..Len(adm') :
    ch'[adm'[i]].type = "SACK" /\ ch'[adm'[i]].trigger # NULL
SackCancelled == asoc.timer_pending /\ ~asoc'.timer_pending

\* The bundled SACK chunks of a list of chunks.
BundledSacks(list) ==
  {k \in 1..Len(list) : ch[list[k]].type = "SACK" /\ ch[list[k]].trigger # NULL}
OneSackEach ==
  /\ Cardinality(BundledSacks(packet.chunk_list)) <= 1
  /\ \A b \in 1..Len(wire) :
       Cardinality(BundledSacks(Concat(wire[b].subs, 1))) <= 1

\* sack_needed is cleared and the timer cancelled iff a SACK chunk was
\* appended.
SackIffAppended ==
  /\ SackCancelled <=> SackAppended
  /\ SackAppended => ~asoc'.sack_needed
  /\ (~SackAppended /\ (asoc'.timer_pending => asoc.timer_pending))
       => asoc'.sack_needed = asoc.sack_needed

\* C18 as claimed: a DATA chunk offered while the bundler of SACK chunks is
\* due gets a SACK chunk directly before it in chunk_list; sack_needed is
\* cleared and the timer cancelled iff a SACK chunk was appended; no packet
\* holds two bundled SACK chunks.
C18_SackBeforeData ==
  [][/\ (SackDue /\ OfferedData) => SackRightBefore
     /\ SackIffAppended
     /\ OneSackEach']_vars

\* C18: a DATA chunk offered while the bundler of SACK chunks is due, and
\* admitted by that append, has a SACK chunk directly before it in chunk_list
\* unless sctp_make_sack gave none; a SACK chunk that was appended stands
\* without its DATA chunk only where the DATA chunk got PMTU_FULL behind it;
\* sack_needed is cleared and the timer cancelled iff a SACK chunk was
\* appended; no packet holds two bundled SACK chunks.
C18_SackBeforeAdmittedData ==
  [][/\ (SackDue /\ OfferedData /\ last'.first = "OK")
          => (SackRightBefore \/ ~SackMade)
     /\ (OfferedData /\ SackAppended /\ ~SackRightBefore)
          => last'.first = "PMTU_FULL"
     /\ SackIffAppended
     /\ OneSackEach']_vars

\* A second DATA chunk was admitted behind [SACK, DATA] after the timer had
\* started again.
C18_Witness ==
  /\ pc = "idle"
  /\ asoc.timer_pending
  /\ last.chunk # NULL
  /\ last.first = "OK"
  /\ \E k \in 1..(Len(packet.chunk_list) - 2) :
       /\ ch[packet.chunk_list[k]].type = "SACK"
       /\ ch[packet.chunk_list[k]].trigger = packet.chunk_list[k + 1]
       /\ sctp_chunk_is_data(ch[packet.chunk_list[k + 2]])
       /\ packet.chunk_list[k + 2] = last.chunk

\* The chunks whose round trip the step began to measure.
NewlyMarked ==
  {c \in Ids : ~ch[c].rtt_in_progress /\ ch'[c].rtt_in_progress}

\* C19: the emitter sets rtt_in_progress only on a DATA chunk that is not a
\* retransmission and only while rto_pending is false, and sets rto_pending
\* with it; so a call marks at most one chunk, and none while rto_pending is
\* true.
C19_OneRttSample ==
  [][/\ \A c \in NewlyMarked :
          /\ sctp_chunk_is_data(ch'[c])
          /\ ~ch'[c].resent
          /\ ~tp.rto_pending
          /\ tp'.rto_pending
     /\ Cardinality(NewlyMarked) <= 1
     /\ tp.rto_pending => NewlyMarked = {}]_vars

\* One buffer took two new DATA chunks and the round trip of one of them is
\* measured; an earlier measurement had ended before.
C19_Witness ==
  /\ pc = "idle"
  /\ last.how = "sent"
  /\ tp.rto_pending
  /\ \E x, y \in Slots :
       /\ x[1] = Len(wire) /\ y[1] = Len(wire)
       /\ sctp_chunk_is_data(ch[At(x)]) /\ sctp_chunk_is_data(ch[At(y)])
       /\ ~ch[At(x)].resent /\ ~ch[At(y)].resent
       /\ ch[At(x)].rtt_in_progress /\ ~ch[At(y)].rtt_in_progress

\* C20: every sub-packet of a GSO buffer, its AUTH chunk included, is at most
\* pathmtu long.
C20_GsoSubPacketsFit ==
  \A b \in 1..Len(wire) :
    wire[b].gso
      => \A s \in 1..Len(wire[b].subs) :
           packet.overhead + PaddedSum(wire[b].subs[s], 1) <= tp.pathmtu

\* The list holds a chunk of this type.
Holds(type) ==
  \E k \in 1..Len(packet.chunk_list) : ch[packet.chunk_list[k]].type = type

\* C21: between calls the flags describe chunk_list: has_data iff it holds a
\* DATA chunk, has_cookie_echo iff it holds a COOKIE_ECHO chunk, packet.auth
\* is set only to an AUTH chunk of the list and then has_auth is set, and an
\* empty list goes with size = overhead, clear flags and no packet.auth.
C21_FlagsDescribeList ==
  pc = "idle"
    => /\ packet.has_data <=> Holds("DATA")
       /\ packet.has_cookie_echo <=> Holds("COOKIE_ECHO")
       /\ packet.auth # NULL
            => /\ \E k \in 1..Len(packet.chunk_list) :
                    packet.chunk_list[k] = packet.auth
               /\ ch[packet.auth].type = "AUTH"
               /\ packet.has_auth
       /\ packet.chunk_list = <<>> => Clean(packet)

\* The packet holds an AUTH chunk, a COOKIE_ECHO chunk and no DATA chunk; an
\* earlier packet went out and left the flags clear.
C21_Witness ==
  /\ pc = "idle"
  /\ wire # <<>>
  /\ packet.auth # NULL
  /\ packet.has_cookie_echo
  /\ ~packet.has_data

\* C22: without segmentation offload (max_size is the path MTU) and with a
\* path MTU that stays, every packet between calls is at most pathmtu long or
\* has ipfragok set, so sctp_packet_transmit never finds that it needs the
\* offload the device lacks.
C22_FitsWithoutGso ==
  (pc = "idle" /\ packet.max_size = asoc.pathmtu)
    => (packet.size <= tp.pathmtu \/ packet.ipfragok)

\* Without offload, a packet that holds chunks grew beyond the path MTU with
\* ipfragok set.
C22_Witness ==
  /\ pc = "idle"
  /\ packet.max_size = asoc.pathmtu
  /\ Len(packet.chunk_list) > 1
  /\ packet.size > tp.pathmtu
  /\ packet.ipfragok

\* How often chunk a stands in the list.
Count(list, a) == Cardinality({k \in 1..Len(list) : list[k] = a})

\* The sub-packets of buffer b that hold chunk a.
SubsWith(b, a) ==
  {s \in 1..Len(wire[b].subs) : Count(wire[b].subs[s], a) > 0}

\* C23: in a GSO emit list_add puts the AUTH chunk back at the head of
\* chunk_list only after the drain loop took it off the list (pc = "crash"
\* marks a list_add of an AUTH chunk that is still linked), so the AUTH chunk
\* stands at most once in chunk_list, and exactly once in the sub-packet that
\* first carries it and in every sub-packet behind that one.
C23_AuthRequeuedAfterDrain ==
  /\ pc # "crash"
  /\ \A a \in Ids : ch[a].type = "AUTH" => Count(packet.chunk_list, a) <= 1
  /\ \A b \in 1..Len(wire), a \in Ids :
       (wire[b].gso /\ ch[a].type = "AUTH" /\ SubsWith(b, a) # {})
         => \A s \in 1..Len(wire[b].subs) :
              (\E t \in SubsWith(b, a) : t <= s)
                => Count(wire[b].subs[s], a) = 1

\* C24: a call of sctp_packet_append_chunk that returns PMTU_FULL leaves
\* chunk_list, size and the flags of the packet as they were, and the SACK
\* timer and peer.sack_needed too.
C24_PmtuFullChangesNothing ==
  [][(last'.chunk # NULL /\ last'.emits = 0 /\ last'.first = "PMTU_FULL")
       => /\ packet'.chunk_list = packet.chunk_list
          /\ packet'.size = packet.size
          /\ packet'.has_cookie_echo = packet.has_cookie_echo
          /\ packet'.has_sack = packet.has_sack
          /\ packet'.has_data = packet.has_data
          /\ packet'.has_auth = packet.has_auth
          /\ packet'.ipfragok = packet.ipfragok
          /\ asoc'.timer_pending = asoc.timer_pending
          /\ asoc'.sack_needed = asoc.sack_needed]_vars

\* Every sub-packet of a GSO buffer took a chunk that is no AUTH chunk off the
\* list.
EachPassDrains ==
  \A b \in 1..Len(wire) :
    wire[b].gso
      => \A s \in 1..Len(wire[b].subs) :
           \E k \in 1..Len(wire[b].subs[s]) :
             ch[wire[b].subs[s][k]].type # "AUTH"

\* C25: sctp_packet_transmit always returns (pc = "crash" marks a call that
\* does not): every pass of the GSO loop fails or takes a chunk that is no
\* AUTH chunk off the list, and the call leaves chunk_list empty.
C25_TransmitTerminates ==
  [][last'.emits = 1
       => /\ pc' = "idle"
          /\ last'.appends < 2 => packet'.chunk_list = <<>>
          /\ EachPassDrains']_vars

====
